---- MODULE Spec2Model ----
(***************************************************************************)
(* Model of app.py, the Streamlit dashboard relating mite counts to        *)
(* weather covariates.  Streamlit re-executes the whole script on every    *)
(* user interaction; one action of the model is one such execution.        *)
(*                                                                         *)
(* Text is modelled as a sequence of one-character strings so that         *)
(* stripping, joining and re-splitting are computed, not assumed.          *)
(* p-values are integers in thousandths (0.05 is 50).                      *)
(***************************************************************************)
EXTENDS Integers, Sequences, FiniteSets, TLC

VARIABLES uploaded_file, cache, yearsW, weatherW, featuresW, out, strictFrames,
          call, ret

vars == <<uploaded_file, cache, yearsW, weatherW, featuresW, out, strictFrames,
          call, ret>>

(***************************************************************************)
(* Column names used by the script.                                        *)
(***************************************************************************)
Year == <<"Y", "e", "a", "r">>
SMW == <<"S", "M", "W">>
Mite == <<"M", "i", "t", "e">>
Intercept == <<"I", "n", "t", "e", "r", "c", "e", "p", "t">>
Reserved == <<Year, SMW, Mite>>

Tmax == <<"T", "m", "a", "x">>
RH == <<"R", "H">>
WS == <<"W", "S">>
VP == <<"V", "P">>
WindSpeed == <<"W", "i", "n", "d", " ", "S", "p", "e", "e", "d">>
LowerYear == <<"y", "e", "a", "r">>

Whitespace == {" ", "\t"}
Letters == {"A", "B", "C", "D", "E", "F", "G", "H", "I", "J", "K", "L", "M",
            "N", "O", "P", "Q", "R", "S", "T", "U", "V", "W", "X", "Y", "Z",
            "a", "b", "c", "d", "e", "f", "g", "h", "i", "j", "k", "l", "m",
            "n", "o", "p", "q", "r", "s", "t", "u", "v", "w", "x", "y", "z"}
Digits == {"0", "1", "2", "3", "4", "5", "6", "7", "8", "9"}
SafeChars == Letters \cup Digits \cup {"_"}

(***************************************************************************)
(* Sequence helpers (list semantics of the Python built-ins used).         *)
(***************************************************************************)
Range(s) == {s[i] : i \in DOMAIN s}

Contains(s, x) == \E i \in DOMAIN s : s[i] = x

Count(s, x) == Cardinality({i \in DOMAIN s : s[i] = x})

NoDuplicates(s) == \A i, j \in DOMAIN s : s[i] = s[j] => i = j

RECURSIVE Unique(_)
\* Series.unique(): distinct values in order of first appearance
Unique(s) ==
    IF s = <<>> THEN <<>>
    ELSE LET init == Unique(SubSeq(s, 1, Len(s) - 1))
             last == s[Len(s)]
         IN  IF Contains(init, last) THEN init ELSE Append(init, last)

RECURSIVE LStrip(_)
LStrip(s) ==
    IF s # <<>> /\ Head(s) \in Whitespace THEN LStrip(Tail(s)) ELSE s

RECURSIVE RStrip(_)
RStrip(s) ==
    IF s # <<>> /\ s[Len(s)] \in Whitespace
    THEN RStrip(SubSeq(s, 1, Len(s) - 1)) ELSE s

\* Variant: only the leading whitespace removed (lstrip for strip)
LeftStripOnly(s) == LStrip(s)

\* str.strip(): leading and trailing whitespace removed, the inside kept
Strip(s) == RStrip(LStrip(s))

RECURSIVE JoinTrailing(_, _)
\* Variant: the separator written after every part, the last one included
JoinTrailing(sep, parts) ==
    IF parts = <<>> THEN <<>>
    ELSE parts[1] \o sep \o JoinTrailing(sep, Tail(parts))

RECURSIVE Join(_, _)
\* sep.join(parts)
Join(sep, parts) ==
    IF parts = <<>> THEN <<>>
    ELSE IF Len(parts) = 1 THEN parts[1]
         ELSE parts[1] \o sep \o Join(sep, Tail(parts))

(***************************************************************************)
(* Datasets.  An uploaded file is a header row of raw names plus rows of   *)
(* cells; a DataFrame is a list of column labels plus the same rows.       *)
(* Header rows are taken as the CSV reader delivers them: raw names that   *)
(* are character-for-character equal have already been renamed by it, so   *)
(* the raw names of one file are pairwise different.                       *)
(***************************************************************************)
NoFile == [present |-> FALSE, readable |-> FALSE, header |-> <<>>, rows |-> <<>>]

NoFrame == [columns |-> <<>>, rows |-> <<>>]

\* pd.read_csv(file): labels are the raw header names, cells as in the file
ReadCsv(file) == [columns |-> file.header, rows |-> file.rows]

\* df.columns = df.columns.str.strip()
Normalize(df) ==
    [columns |-> [i \in DOMAIN df.columns |-> Strip(df.columns[i])],
     rows |-> df.rows]

\* The memo of st.cache_data: the stored frame for this file, if any
CacheHit(c, file) == file \in DOMAIN c

CacheValue(c, file) == c[file]

\* Variant: the memo also stores the outcome of a failed parse
load_data_sticky(file, c) ==
    LET hit == file \in DOMAIN c
        df == IF hit THEN c[file]
              ELSE IF ~file.readable THEN NoFrame ELSE Normalize(ReadCsv(file))
    IN  [raised |-> ~hit /\ ~file.readable,
         df |-> df,
         cache |-> [f \in DOMAIN c \cup {file} |-> IF f = file THEN df ELSE c[f]]]

\* load_data(file) under @st.cache_data: a hit returns the stored frame, a
\* miss parses and normalizes; an exception from read_csv is not stored.
load_data(file, c) ==
    LET hit == CacheHit(c, file)
        raised == ~hit /\ ~file.readable
        df == IF hit THEN CacheValue(c, file)
              ELSE IF raised THEN NoFrame ELSE Normalize(ReadCsv(file))
    IN  [raised |-> raised,
         df |-> df,
         cache |-> IF raised \/ hit THEN c
                   ELSE [f \in DOMAIN c \cup {file} |->
                            IF f = file THEN df ELSE c[f]]]

\* Position of the (single) column labelled name
ColumnIndex(df, name) == CHOOSE i \in DOMAIN df.columns : df.columns[i] = name

\* df[name] as a Series, for a label carried by exactly one column
ColumnValues(df, name) ==
    [r \in DOMAIN df.rows |-> df.rows[r][ColumnIndex(df, name)]]

RECURSIVE SelectRows(_, _, _)
\* rows of df[df[name].isin(values)], original order kept
SelectRows(rows, col, values) ==
    IF rows = <<>> THEN <<>>
    ELSE IF Head(rows)[col] \in values
         THEN <<Head(rows)>> \o SelectRows(Tail(rows), col, values)
         ELSE SelectRows(Tail(rows), col, values)

\* Variant: the mask taken from the first column instead of the Year column
YearFilterFirstColumn(df, years) ==
    [columns |-> df.columns, rows |-> SelectRows(df.rows, 1, years)]

\* Variant: an empty selection treated as "no filter"
YearFilterSkipEmpty(df, years) ==
    [columns |-> df.columns,
     rows |-> IF years = {} THEN df.rows
              ELSE SelectRows(df.rows, ColumnIndex(df, Year), years)]

\* filtered_df = df[df['Year'].isin(years)]
YearFilter(df, years) ==
    [columns |-> df.columns,
     rows |-> SelectRows(df.rows, ColumnIndex(df, Year), years)]

(***************************************************************************)
(* Feature selection, formula construction, significance summary.          *)
(***************************************************************************)
RECURSIVE CandidatesKeepTarget(_)
\* Variant: the target column Mite left among the candidates
CandidatesKeepTarget(columns) ==
    IF columns = <<>> THEN <<>>
    ELSE IF Head(columns) \in {Year, SMW} THEN CandidatesKeepTarget(Tail(columns))
         ELSE <<Head(columns)>> \o CandidatesKeepTarget(Tail(columns))

RECURSIVE Candidates(_)
\* [col for col in df.columns if col not in ['Year', 'SMW', 'Mite']]
Candidates(columns) ==
    IF columns = <<>> THEN <<>>
    ELSE IF Contains(Reserved, Head(columns)) THEN Candidates(Tail(columns))
         ELSE <<Head(columns)>> \o Candidates(Tail(columns))

DefaultCount == 3

\* available_features[:3] if len(available_features) >= 3 else available_features
DefaultFeatures(available) ==
    IF Len(available) >= DefaultCount THEN SubSeq(available, 1, DefaultCount)
    ELSE available

\* f"Mite ~ {' + '.join(features)}"
BuildFormula(features) ==
    Mite \o <<" ", "~", " ">> \o Join(<<" ", "+", " ">>, features)

Alpha == 50

RECURSIVE SignificantInclusive(_)
\* Variant: the threshold itself counted as significant (<= for <)
SignificantInclusive(p_values) ==
    IF p_values = <<>> THEN <<>>
    ELSE IF Head(p_values).p <= Alpha
         THEN <<Head(p_values).term>> \o SignificantInclusive(Tail(p_values))
         ELSE SignificantInclusive(Tail(p_values))

RECURSIVE Significant(_)
\* p_values[p_values < 0.05].index.tolist()
Significant(p_values) ==
    IF p_values = <<>> THEN <<>>
    ELSE IF Head(p_values).p < Alpha
         THEN <<Head(p_values).term>> \o Significant(Tail(p_values))
         ELSE Significant(Tail(p_values))

RECURSIVE RemoveFirst(_, _)
\* list.remove(x): the first occurrence only
RemoveFirst(s, x) ==
    IF s = <<>> THEN <<>>
    ELSE IF Head(s) = x THEN Tail(s)
         ELSE <<Head(s)>> \o RemoveFirst(Tail(s), x)

\* significant_vars after the Intercept removal
Summarize(p_values) ==
    LET significant_vars == Significant(p_values)
    IN  IF Contains(significant_vars, Intercept)
        THEN RemoveFirst(significant_vars, Intercept)
        ELSE significant_vars

(***************************************************************************)
(* The regression library at the call ols(formula, data=filtered_df).fit() *)
(* The numerics are outside the script: the p-values come from an oracle   *)
(* (one value for the intercept, one per term), which may also report a    *)
(* failure of the fit.  What the script decides is the formula text, so    *)
(* the parse of that text is computed: the right-hand side is split on     *)
(* '+', and each term must name one column of the data by an identifier.   *)
(***************************************************************************)
RECURSIVE SplitOn(_, _)
SplitOn(s, d) ==
    IF ~Contains(s, d) THEN <<s>>
    ELSE LET k == CHOOSE i \in DOMAIN s :
                      s[i] = d /\ \A j \in 1..(i - 1) : s[j] # d
         IN  <<SubSeq(s, 1, k - 1)>> \o SplitOn(SubSeq(s, k + 1, Len(s)), d)

IsIdentifier(name) ==
    /\ name # <<>>
    /\ \A i \in DOMAIN name : name[i] \in SafeChars
    /\ name[1] \notin Digits

FormulaTerms(formula) ==
    LET sides == SplitOn(formula, "~")
        rhs == IF Len(sides) = 2 THEN SplitOn(sides[2], "+") ELSE <<>>
    IN  [i \in DOMAIN rhs |-> Strip(rhs[i])]

OlsRaises(formula, data, oracle) ==
    \/ oracle.raises
    \/ data.rows = <<>>
    \/ Count(data.columns, Mite) # 1
    \/ FormulaTerms(formula) = <<>>
    \/ \E i \in DOMAIN FormulaTerms(formula) :
          \/ ~IsIdentifier(FormulaTerms(formula)[i])
          \/ Count(data.columns, FormulaTerms(formula)[i]) # 1

\* model.pvalues: the intercept first, then the terms in formula order
OlsPValues(formula, oracle) ==
    LET terms == FormulaTerms(formula)
    IN  <<[term |-> Intercept, p |-> oracle.p[0]]>> \o
        [i \in DOMAIN terms |-> [term |-> terms[i], p |-> oracle.p[i]]]

(***************************************************************************)
(* Widgets.  A widget keeps the user's value from one execution to the     *)
(* next as long as it is rendered with the same options; rendered with     *)
(* other options, or after an execution that did not reach it, it starts   *)
(* from its default.                                                       *)
(***************************************************************************)
NoWidget == [live |-> FALSE, id |-> <<>>, value |-> <<>>]

NoYearsWidget == [live |-> FALSE, id |-> <<>>, value |-> {}]

WidgetValue(w, options, default) ==
    IF w.live /\ w.id = options THEN w.value ELSE default

Rendered(options, value) == [live |-> TRUE, id |-> options, value |-> value]

\* st.selectbox default: the first option, None (the empty name) without options
FirstOption(options) == IF options = <<>> THEN <<>> ELSE options[1]

(***************************************************************************)
(* One execution of the script (lines 30-103).  Raise sites are named by   *)
(* their line; the first one that raises ends the try block, and the       *)
(* except clause reports it.  strict is the installed display stack's      *)
(* treatment of a frame with repeated column labels: rejected at the       *)
(* first display call, or accepted there and rejected only where an        *)
(* ambiguous label is referenced.                                          *)
(***************************************************************************)
Completed == 0
AtReadCsv == 24
AtYearLookup == 36
AtDataframe == 44
AtLine == 50
AtScatter == 59
AtOls == 84

\* except Exception as e: st.error(...)
Handler(stop) == IF stop # Completed THEN "error" ELSE "none"

\* Variant: the regression block entered whatever the selection
GateAlways(features) == TRUE

\* if features: (line 82)
Gate(features) == features # <<>>

\* The first raise site reached, in script order
FirstRaise(e24, e36, e44, e50, e59, e84) ==
    IF e24 THEN AtReadCsv
    ELSE IF e36 THEN AtYearLookup
    ELSE IF e44 THEN AtDataframe
    ELSE IF e50 THEN AtLine
    ELSE IF e59 THEN AtScatter
    ELSE IF e84 THEN AtOls
    ELSE Completed

\* Whether the execution got past the given raise site
Past(stop, line) == stop = Completed \/ stop > line

\* else: st.info(...) (lines 101-103): no file, nothing rendered
Idle(c) ==
    [cache |-> c, yearsW |-> NoYearsWidget, weatherW |-> NoWidget,
     featuresW |-> NoWidget,
     out |-> [stop |-> Completed, msg |-> "info", loaded |-> FALSE,
              df |-> NoFrame, filtered |-> FALSE, years |-> {},
              filtered_df |-> NoFrame, tabs |-> {},
              selecting |-> FALSE, available_features |-> <<>>,
              features |-> <<>>, built |-> FALSE, formula |-> <<>>,
              fit_called |-> FALSE, p_values |-> <<>>,
              significant_vars |-> <<>>]]

\* st.success / st.warning / st.error, or nothing shown by the regression tab
Message(stop, features, significant_vars) ==
    IF Handler(stop) = "error" THEN "error"
    ELSE IF ~Gate(features) THEN "none"
    ELSE IF significant_vars # <<>> THEN "success"
    ELSE "warning"

\* What an execution that stopped at stop (or completed) leaves behind
Executed(stop, c, df, options, years, filtered_df, weather_options, weather_var, available_features, features, formula, p_values, significant_vars) ==
    [cache |-> c,
     yearsW |-> IF Past(stop, AtYearLookup) THEN Rendered(options, years)
                ELSE NoYearsWidget,
     weatherW |-> IF Past(stop, AtLine) THEN Rendered(weather_options, weather_var)
                  ELSE NoWidget,
     featuresW |-> IF Past(stop, AtScatter)
                   THEN Rendered(available_features, features) ELSE NoWidget,
     out |-> [stop |-> stop,
              msg |-> Message(stop, features, significant_vars),
              loaded |-> Past(stop, AtReadCsv),
              df |-> IF Past(stop, AtReadCsv) THEN df ELSE NoFrame,
              filtered |-> Past(stop, AtYearLookup),
              years |-> IF Past(stop, AtYearLookup) THEN years ELSE {},
              filtered_df |-> IF Past(stop, AtYearLookup) THEN filtered_df
                              ELSE NoFrame,
              tabs |-> {t \in {AtDataframe, AtLine, AtScatter} : Past(stop, t)},
              selecting |-> Past(stop, AtScatter),
              available_features |-> IF Past(stop, AtScatter)
                                     THEN available_features ELSE <<>>,
              features |-> IF Past(stop, AtScatter) THEN features ELSE <<>>,
              built |-> Past(stop, AtScatter) /\ Gate(features),
              formula |-> IF Past(stop, AtScatter) /\ Gate(features)
                          THEN formula ELSE <<>>,
              fit_called |-> Past(stop, AtScatter) /\ Gate(features),
              p_values |-> IF Past(stop, AtOls) /\ Gate(features)
                           THEN p_values ELSE <<>>,
              significant_vars |-> IF Past(stop, AtOls) /\ Gate(features)
                                   THEN significant_vars ELSE <<>>]]

\* Lines 36-37 onwards, for a loaded frame
Body(ld, yw, ww, fw, oracle, strict) ==
    LET df == ld.df
        options == Unique(ColumnValues(df, Year))
        years == WidgetValue(yw, options, Range(options))
        filtered_df == YearFilter(df, years)
        weather_options == Candidates(df.columns)
        weather_var == WidgetValue(ww, weather_options, FirstOption(weather_options))
        available_features == Candidates(df.columns)
        features == WidgetValue(fw, available_features,
                                DefaultFeatures(available_features))
        formula == BuildFormula(features)
        p_values == OlsPValues(formula, oracle)
    IN  Executed(FirstRaise(ld.raised,
                            Count(df.columns, Year) # 1,
                            strict /\ ~NoDuplicates(df.columns),
                            Count(df.columns, SMW) # 1 \/ Count(df.columns, Mite) # 1,
                            weather_var # <<>> /\ Count(df.columns, weather_var) # 1,
                            Gate(features) /\ OlsRaises(formula, filtered_df, oracle)),
                 ld.cache, df, options, years, filtered_df, weather_options,
                 weather_var, available_features, features, formula, p_values,
                 Summarize(p_values))

Script(file, c, yw, ww, fw, oracle, strict) ==
    IF ~file.present THEN Idle(c)
    ELSE Body(load_data(file, c), yw, ww, fw, oracle, strict)

(***************************************************************************)
(* Inputs of the interactive session.                                      *)
(***************************************************************************)
MaxCache == 1

\* A file with the given header whose Year cells are ys, other cells distinct
MkFile(header, ys) ==
    [present |-> TRUE, readable |-> TRUE, header |-> header,
     rows |-> [r \in DOMAIN ys |->
                 [k \in DOMAIN header |->
                    IF Strip(header[k]) = Year THEN ys[r] ELSE 10 * r + k]]]

Unreadable == [present |-> TRUE, readable |-> FALSE, header |-> <<>>, rows |-> <<>>]

Pad(name) == <<" ">> \o name \o <<" ">>
PadRight(name) == name \o <<" ", "\t">>

PaddedHeader == <<Pad(Year), SMW, PadRight(Mite), Tmax, Pad(WindSpeed)>>
InterleavedHeader == <<Tmax, Year, PadRight(RH), SMW, Mite>>
BareHeader == <<Year, SMW, Mite>>
NoYearHeader == <<SMW, Mite, Tmax>>
NoSmwHeader == <<Year, Mite, Tmax>>
NoMiteHeader == <<Pad(Year), SMW, Tmax>>
YearCollisionHeader == <<Pad(Year), PadRight(Year), SMW, Mite, Tmax>>
WeatherCollisionHeader == <<Year, SMW, Mite, Pad(Tmax), PadRight(Tmax)>>

Files ==
    {Unreadable}
    \cup {MkFile(PaddedHeader, ys) : ys \in {<<>>, <<2022, 2023, 2022>>}}
    \cup {MkFile(InterleavedHeader, ys) : ys \in {<<2023>>, <<2023, 2022>>}}
    \cup {MkFile(h, <<2022, 2023>>) :
            h \in {BareHeader, NoYearHeader, NoSmwHeader, NoMiteHeader,
                   YearCollisionHeader, WeatherCollisionHeader}}

FlowPValues == {30, 50}

FitFailure == [raises |-> TRUE, p |-> [i \in {0} |-> 0]]

\* What the fit may answer for a formula of at most n terms
Oracles(n, pvalues) ==
    {FitFailure} \cup {[raises |-> FALSE, p |-> f] : f \in [0..n -> pvalues]}

\* The selections a multiselect can return: options in the order picked
OrderedSelections(options) ==
    {sel \in UNION {[1..n -> Range(options)] : n \in 0..Len(options)} :
        NoDuplicates(sel)}

NoCall == [fn |-> "none"]

(***************************************************************************)
(* The interactive session.                                                *)
(***************************************************************************)
EmptyCache == [f \in {} |-> NoFrame]

Init ==
    /\ uploaded_file = NoFile
    /\ cache = EmptyCache
    /\ yearsW = NoYearsWidget
    /\ weatherW = NoWidget
    /\ featuresW = NoWidget
    /\ out = Idle(EmptyCache).out
    /\ strictFrames \in BOOLEAN
    /\ call = NoCall
    /\ ret = NoCall

\* The answers the fit can give in an execution: one per assignment of
\* p-values to its terms, or a failure; a single one when no fit is called
FitAnswers(dry) ==
    IF dry.fit_called THEN Oracles(Len(dry.features), FlowPValues)
    ELSE {FitFailure}

\* Streamlit re-executes the script with the current upload and widget state
Rerun(file, yw, ww, fw) ==
    \E oracle \in FitAnswers(Script(file, cache, yw, ww, fw, FitFailure,
                                   strictFrames).out) :
        LET r == Script(file, cache, yw, ww, fw, oracle, strictFrames)
        IN  /\ uploaded_file' = file
            /\ cache' = r.cache
            /\ yearsW' = r.yearsW
            /\ weatherW' = r.weatherW
            /\ featuresW' = r.featuresW
            /\ out' = r.out
            /\ UNCHANGED <<strictFrames, call, ret>>

Upload ==
    \E f \in Files :
        /\ f # uploaded_file
        /\ Cardinality(DOMAIN cache \cup (IF f.readable THEN {f} ELSE {})) <= MaxCache
        /\ Rerun(f, yearsW, weatherW, featuresW)

ClearUpload ==
    /\ uploaded_file.present
    /\ Rerun(NoFile, yearsW, weatherW, featuresW)

ChangeYears ==
    /\ yearsW.live
    /\ \E S \in SUBSET Range(yearsW.id) :
          /\ S # yearsW.value
          /\ Rerun(uploaded_file, [yearsW EXCEPT !.value = S], weatherW, featuresW)

ChangeWeatherVar ==
    /\ weatherW.live
    /\ \E v \in Range(weatherW.id) :
          /\ v # weatherW.value
          /\ Rerun(uploaded_file, yearsW, [weatherW EXCEPT !.value = v], featuresW)

ChangeFeatures ==
    /\ featuresW.live
    /\ \E sel \in OrderedSelections(featuresW.id) :
          /\ sel # featuresW.value
          /\ Rerun(uploaded_file, yearsW, weatherW, [featuresW EXCEPT !.value = sel])

Next == Upload \/ ClearUpload \/ ChangeYears \/ ChangeWeatherVar \/ ChangeFeatures

Spec == Init /\ [][Next]_vars

(***************************************************************************)
(* The pipeline stages taken one at a time, over wider inputs than a       *)
(* session reaches: the initial state draws a call, the action applies     *)
(* the stage to it.                                                        *)
(***************************************************************************)
MaxCols == 3
MaxRows == 3
MaxSel == 3
MaxTerms == 2

YearValues == {2022, 2023, 2024}
PValues == {10, 30, 50, 200}

Lists(S, n) == UNION {[1..k -> S] : k \in 0..n}

WideRawNames ==
    {l \o core \o r : core \in {Year, Tmax, WindSpeed},
                      l \in {<<>>, <<" ", "\t">>}, r \in {<<>>, <<" ">>}}

WideHeaders == {h \in Lists(WideRawNames, MaxCols) : Len(h) > 0 /\ NoDuplicates(h)}

RECURSIVE SubLists(_)
\* every order-preserving sub-list of s
SubLists(s) ==
    IF s = <<>> THEN {<<>>}
    ELSE LET rest == SubLists(Tail(s))
         IN  rest \cup {<<Head(s)>> \o t : t \in rest}

ColumnPools ==
    {<<Year, SMW, Mite, Tmax, RH, WS, VP>>,
     <<Tmax, LowerYear, Year, RH, Mite, WindSpeed, SMW, WS>>}

FeaturePool == <<Tmax, RH, WS, WindSpeed>>
TermPool == <<Tmax, RH, WS, VP>>

ManyFeatureFiles ==
    {MkFile(h, <<2023, 2022, 2023>>) :
        h \in {<<Year, SMW, Mite, Tmax, Pad(RH), WS>>,
               <<VP, Pad(Year), Tmax, SMW, RH, PadRight(Mite), WS>>}}

LoadCalls == {[fn |-> "load_data", file |-> MkFile(h, <<2022, 2023>>)] : h \in WideHeaders}

FilterCalls ==
    {[fn |-> "year_filter",
      df |-> Normalize(ReadCsv(MkFile(<<Tmax, Pad(Year)>>, ys))),
      years |-> S] :
        <<ys, S>> \in {x \in Lists(YearValues, MaxRows) \X SUBSET YearValues :
                          x[2] \subseteq Range(x[1])}}

FeatureCalls ==
    {[fn |-> "features", columns |-> cols] :
        cols \in UNION {SubLists(pool) : pool \in ColumnPools}}

FormulaCalls ==
    {[fn |-> "formula", features |-> sel] :
        sel \in {x \in OrderedSelections(FeaturePool) : Len(x) <= MaxSel}}

SummaryCalls ==
    {[fn |-> "summary",
      p_values |-> <<[term |-> Intercept, p |-> f[0]]>> \o
                   [i \in 1..k |-> [term |-> TermPool[i], p |-> f[i]]]] :
        <<k, f>> \in {x \in (1..MaxTerms) \X [0..MaxTerms -> PValues] :
                         \A i \in (x[1] + 1)..MaxTerms : x[2][i] = 10}}

ScriptCalls ==
    {[fn |-> "script", file |-> f, strict |-> b, oracle |-> o] :
        <<f, b, o>> \in {x \in (Files \cup ManyFeatureFiles) \X BOOLEAN
                                 \X Oracles(DefaultCount, FlowPValues) :
                            \/ x[3].raises
                            \/ \A i \in 0..DefaultCount :
                                  i > Len(Candidates(Normalize(ReadCsv(x[1])).columns))
                                     => x[3].p[i] = 30}}

InitStages ==
    /\ uploaded_file = NoFile
    /\ cache = EmptyCache
    /\ yearsW = NoYearsWidget
    /\ weatherW = NoWidget
    /\ featuresW = NoWidget
    /\ out = Idle(EmptyCache).out
    /\ strictFrames = FALSE
    /\ call \in LoadCalls \cup FilterCalls \cup FeatureCalls \cup FormulaCalls
                \cup SummaryCalls \cup ScriptCalls
    /\ ret = NoCall

Apply(fn, result) ==
    /\ call.fn = fn
    /\ ret = NoCall
    /\ ret' = [fn |-> fn, value |-> result]
    /\ UNCHANGED <<uploaded_file, cache, yearsW, weatherW, featuresW, out,
                   strictFrames, call>>

ApplyLoadData ==
    /\ call.fn = "load_data"
    /\ Apply("load_data", load_data(call.file, EmptyCache).df)

ApplyYearFilter ==
    /\ call.fn = "year_filter"
    /\ Apply("year_filter", YearFilter(call.df, call.years))

ApplyFeatures ==
    /\ call.fn = "features"
    /\ Apply("features",
             [available_features |-> Candidates(call.columns),
              default |-> DefaultFeatures(Candidates(call.columns))])

ApplyFormula ==
    /\ call.fn = "formula"
    /\ Apply("formula",
             [built |-> Gate(call.features),
              formula |-> IF Gate(call.features) THEN BuildFormula(call.features)
                          ELSE <<>>])

ApplySummary ==
    /\ call.fn = "summary"
    /\ Apply("summary", Summarize(call.p_values))

ApplyScript ==
    /\ call.fn = "script"
    /\ Apply("script",
             Script(call.file, EmptyCache, NoYearsWidget, NoWidget, NoWidget,
                    call.oracle, call.strict).out)

NextStages ==
    \/ ApplyLoadData
    \/ ApplyYearFilter
    \/ ApplyFeatures
    \/ ApplyFormula
    \/ ApplySummary
    \/ ApplyScript

SpecStages == InitStages /\ [][NextStages]_vars

(***************************************************************************)
(* Properties.                                                             *)
(***************************************************************************)
Delimiters == {"~", "+"} \cup Whitespace

RECURSIVE Tokens(_, _, _)
\* The pieces of s between delimiters; a double-quoted stretch is not split
Tokens(s, cur, quoted) ==
    IF s = <<>> THEN (IF cur = <<>> THEN <<>> ELSE <<cur>>)
    ELSE IF Head(s) = "\"" THEN Tokens(Tail(s), Append(cur, Head(s)), ~quoted)
    ELSE IF ~quoted /\ Head(s) \in Delimiters
         THEN (IF cur = <<>> THEN <<>> ELSE <<cur>>) \o Tokens(Tail(s), <<>>, FALSE)
         ELSE Tokens(Tail(s), Append(cur, Head(s)), quoted)

Terms(formula) == Tokens(formula, <<>>, FALSE)

IsSafe(name) == \A i \in DOMAIN name : name[i] \in SafeChars

\* No whitespace at either end
Trimmed(name) ==
    name = <<>> \/ (name[1] \notin Whitespace /\ name[Len(name)] \notin Whitespace)

\* raw is name with whitespace only added around it
PaddingOf(raw, name) ==
    \E a \in 1..(Len(raw) + 1) :
        /\ a + Len(name) - 1 <= Len(raw)
        /\ SubSeq(raw, a, a + Len(name) - 1) = name
        /\ \A i \in DOMAIN raw :
              (i < a \/ i > a + Len(name) - 1) => raw[i] \in Whitespace

Applied(fn) == ret # NoCall /\ ret.fn = fn

\* C1: every built formula has exactly one term per selected feature when
\* re-split on '~', '+' and whitespace (a name with an unsafe character being
\* quoted), and safe names appear bare.
FormulaQuotesUnsafeNames ==
    (Applied("formula") /\ ret.value.built) =>
        /\ Len(Terms(ret.value.formula)) = Len(call.features) + 1
        /\ \A i \in DOMAIN call.features :
              IsSafe(call.features[i]) =>
                  Contains(Terms(ret.value.formula), call.features[i])

RECURSIVE ExpectedFormula(_)
ExpectedFormula(fs) ==
    IF Len(fs) = 1 THEN <<"M", "i", "t", "e", " ", "~", " ">> \o fs[1]
    ELSE ExpectedFormula(SubSeq(fs, 1, Len(fs) - 1)) \o <<" ", "+", " ">> \o fs[Len(fs)]

AllSafe(fs) == \A i \in DOMAIN fs : IsSafe(fs[i])

\* C5: for a non-empty Feature Set of safe names the formula is exactly
\* "Mite ~ f1 + ... + fn", the terms in the order of the Feature Set, each once.
FormulaFormAndOrder ==
    (Applied("formula") /\ call.features # <<>> /\ AllSafe(call.features)) =>
        /\ ret.value.built
        /\ ret.value.formula = ExpectedFormula(call.features)
        /\ Terms(ret.value.formula) = <<Mite>> \o call.features
        /\ call.features = <<Tmax, RH>> =>
              ret.value.formula = <<"M", "i", "t", "e", " ", "~", " ",
                                    "T", "m", "a", "x", " ", "+", " ", "R", "H">>

FormulaOfThreeSafeNames ==
    /\ Applied("formula")
    /\ Len(call.features) = 3
    /\ AllSafe(call.features)
    /\ ret.value.built

KeptTerm(e) == e.p < 50 /\ e.term # Intercept

\* C3: the reported factors are exactly the terms with p < 0.05, in the
\* mapping's order, without the term named Intercept.
SignificantFactorsExact ==
    Applied("summary") =>
        /\ LET kept == SelectSeq(call.p_values, KeptTerm)
           IN  ret.value = [i \in DOMAIN kept |-> kept[i].term]
        /\ call.p_values = <<[term |-> Intercept, p |-> 10], [term |-> Tmax, p |-> 30],
                             [term |-> RH, p |-> 200]>>
              => ret.value = <<Tmax>>

SummaryAtThreshold ==
    /\ Applied("summary")
    /\ call.p_values = <<[term |-> Intercept, p |-> 10], [term |-> Tmax, p |-> 50],
                         [term |-> RH, p |-> 30]>>
    /\ ret.value = <<RH>>

RowsOfYear(df, y) ==
    Cardinality({r \in DOMAIN df.rows : df.rows[r][ColumnIndex(df, Year)] = y})

RECURSIVE SumRows(_, _)
SumRows(df, S) ==
    IF S = {} THEN 0
    ELSE LET y == CHOOSE v \in S : TRUE
         IN  RowsOfYear(df, y) + SumRows(df, S \ {y})

RowSelected(row) == row[ColumnIndex(call.df, Year)] \in call.years

\* C4: the Filtered View holds exactly the rows whose Year is selected, in
\* their original order; its size is the sum of the per-year row counts; the
\* full selection (the default) keeps every row, the empty one none.
YearFilterExact ==
    /\ Applied("year_filter") =>
          /\ ret.value.columns = call.df.columns
          /\ ret.value.rows = SelectSeq(call.df.rows, RowSelected)
          /\ Len(ret.value.rows) = SumRows(call.df, call.years)
          /\ call.years = Range(ColumnValues(call.df, Year)) =>
                ret.value.rows = call.df.rows
          /\ call.years = {} => ret.value.rows = <<>>
    /\ (Applied("script") /\ ret.value.filtered) =>
          /\ ret.value.years = Range(ColumnValues(ret.value.df, Year))
          /\ ret.value.filtered_df = ret.value.df
          /\ ret.value.df.rows = call.file.rows

ProperYearSubsetFiltered ==
    /\ Applied("year_filter")
    /\ call.years # {}
    /\ Len(ret.value.rows) > 0
    /\ Len(ret.value.rows) < Len(call.df.rows)
    /\ Cardinality(call.years) = 2

NotReserved(col) == col \notin {Year, SMW, Mite}

\* C6: the candidates are the columns other than Year, SMW and Mite, in
\* column order; without an override the selection is the first three
\* candidates, or all of them when fewer than three exist.
CandidatesAndDefault ==
    /\ Applied("features") =>
          /\ ret.value.available_features = SelectSeq(call.columns, NotReserved)
          /\ Len(ret.value.default) =
                (IF Len(ret.value.available_features) >= 3 THEN 3
                 ELSE Len(ret.value.available_features))
          /\ \A i \in DOMAIN ret.value.default :
                ret.value.default[i] = ret.value.available_features[i]
          /\ call.columns = <<Year, SMW, Mite, Tmax, RH>> =>
                ret.value.available_features = <<Tmax, RH>>
    /\ (Applied("script") /\ ret.value.selecting) =>
          /\ ret.value.available_features = SelectSeq(ret.value.df.columns, NotReserved)
          /\ ret.value.features =
                SubSeq(ret.value.available_features, 1,
                       IF Len(ret.value.available_features) >= 3 THEN 3
                       ELSE Len(ret.value.available_features))

MoreThanThreeCandidates ==
    /\ Applied("features")
    /\ Len(ret.value.available_features) > 3
    /\ Len(ret.value.default) = 3
    /\ Len(call.columns) > Len(ret.value.available_features)

YearColumns(header) == {i \in DOMAIN header : PaddingOf(header[i], Year)}

\* C10: load_data returns the file's columns, in order and with the same
\* cells, each name freed of leading and trailing whitespace; normalizing
\* again changes nothing; the stages after the load read the trimmed names.
NormalizerContract ==
    /\ Applied("load_data") =>
          /\ Len(ret.value.columns) = Len(call.file.header)
          /\ \A i \in DOMAIN ret.value.columns :
                /\ Trimmed(ret.value.columns[i])
                /\ PaddingOf(call.file.header[i], ret.value.columns[i])
          /\ ret.value.rows = call.file.rows
          /\ Normalize(ret.value) = ret.value
    /\ (Applied("script") /\ call.file.readable) =>
          /\ ret.value.loaded
          /\ \A i \in DOMAIN ret.value.df.columns : Trimmed(ret.value.df.columns[i])
          /\ Cardinality(YearColumns(call.file.header)) = 1 =>
                /\ ret.value.filtered
                /\ ret.value.filtered_df.columns = ret.value.df.columns
          /\ \A i \in DOMAIN ret.value.available_features :
                Trimmed(ret.value.available_features[i])

PaddedHeaderLoaded ==
    /\ Applied("load_data")
    /\ \E i \in DOMAIN call.file.header :
          /\ call.file.header[i] = <<" ", "\t">> \o WindSpeed \o <<" ">>
          /\ ret.value.columns[i] = WindSpeed

\* C2: the formula is built and the fit invoked only for a non-empty
\* selection; with an empty selection the regression tab builds no formula
\* (never "Mite ~ "), runs no fit, shows no success, warning or error, and
\* the execution completes.
EmptyFeatureSetGate ==
    /\ out.built => out.features # <<>>
    /\ out.fit_called => (out.built /\ out.features # <<>>)
    /\ out.formula # <<"M", "i", "t", "e", " ", "~", " ">>
    /\ (out.selecting /\ out.features = <<>>) =>
          /\ ~out.built
          /\ out.formula = <<>>
          /\ ~out.fit_called
          /\ out.p_values = <<>>
          /\ out.msg = "none"
          /\ out.stop = Completed

AllFeaturesDeselected ==
    /\ uploaded_file.present
    /\ out.selecting
    /\ out.available_features # <<>>
    /\ out.features = <<>>
    /\ out.msg = "none"

Collides(header) ==
    \E i, j \in DOMAIN header : i # j /\ Strip(header[i]) = Strip(header[j])

\* C7: a file with two headers equal after trimming is reported as an error
\* at load, no later stage runs on the frame with repeated labels, and no
\* candidate list or Feature Set holds a duplicate.
CollisionIsSchemaError ==
    /\ (uploaded_file.present /\ uploaded_file.readable /\ Collides(uploaded_file.header)) =>
          /\ out.msg = "error"
          /\ ~out.filtered
          /\ ~out.selecting
          /\ ~out.built
          /\ ~out.fit_called
    /\ NoDuplicates(out.available_features)
    /\ NoDuplicates(out.features)

FreshResults ==
    {Script(uploaded_file, EmptyCache, yearsW, weatherW, featuresW, oracle,
            strictFrames).out :
        oracle \in FitAnswers(out)}

====
